---- MODULE Spec2Model ----
(***************************************************************************)
(* The per-connection engine of ratchet's WebSocket (ratchet/src/ws.rs):   *)
(* WebSocketInner::read, ::write, ::send_fragmented and WebSocket::close,  *)
(* running against the frame codec (FramedIo), which is the environment.  *)
(* Every `.await` on the codec is a position of the call in progress (pc); *)
(* the codec decides what read_next yields and whether a write succeeds.  *)
(***************************************************************************)
EXTENDS Integers, Sequences, FiniteSets, TLC

\* ------------------------------------------------------------------ bounds
MaxLen == 1       \* longest short payload
MaxBuf == 3       \* longest buffer handed to send_fragmented
MaxFrag == 2      \* largest fragment_size
MaxDiscards == 2  \* the count of discarded Pongs saturates here

\* ------------------------------------------------------- program constants
CONTROL_MAX_SIZE == 125

\* ---------------------------------------------------------------- payloads
\* Two byte values are enough to tell payloads of one length apart.
Bytes == {1, 2}
ShortPayloads == UNION {[1..n -> Bytes] : n \in 0..MaxLen}
Fill(n) == [i \in 1..n |-> 1]
\* Buffers a caller hands to write: short ones and the ones around the limit.
WriteBufs ==
  ShortPayloads \cup {Fill(CONTROL_MAX_SIZE - 1), Fill(CONTROL_MAX_SIZE), Fill(CONTROL_MAX_SIZE + 1)}
\* Control payloads the codec hands over are at most CONTROL_MAX_SIZE long.
ControlPayloads == ShortPayloads \cup {Fill(CONTROL_MAX_SIZE)}
\* Buffers for send_fragmented: byte i at position i, so order is visible.
FragBufs == {[i \in 1..n |-> i] : n \in 0..MaxBuf}
FragSizes == 0..MaxFrag

\* ------------------------------------------------------------- data model
PayloadTypes == {"Text", "Binary", "Ping"}
MessageTypes == {"Text", "Binary"}
CONTROL_DATA_MISMATCH == "Unexpected control frame data"
CONTROL_FRAME_LEN == "Control frame length greater than 125"

NoItem == [kind |-> "none", payload |-> <<>>, reason |-> "none"]
Item(k, p, r) == [kind |-> k, payload |-> p, reason |-> r]
\* What FramedIo::read_next can yield with Ok.
Items ==
  {Item("Binary", <<>>, "none"), Item("Text", <<>>, "none")}
    \cup {Item("Ping", p, "none") : p \in ControlPayloads}
    \cup {Item("Pong", p, "none") : p \in ControlPayloads}
    \cup {Item("Close", p, r) : p \in ShortPayloads, r \in {"Normal", "GoingAway"}}
\* What FramedIo::read_next can yield with Err: ReadError {close_with, error}.
ReadErrors ==
  {[close_with |-> "none", error |-> "Io"],
   [close_with |-> "Protocol", error |-> "BadFrame"],
   [close_with |-> "GoingAway", error |-> "TooLarge"]}

NoFrame == [op |-> "none", fin |-> FALSE, payload |-> <<>>, reason |-> "none", descr |-> ""]
\* framed.write(opcode, flags, payload)
Frame(o, f, p) == [op |-> o, fin |-> f, payload |-> p, reason |-> "none", descr |-> ""]
\* framed.write_close(reason): the codec builds the Close frame from the reason.
CloseFrame(code, d) == [op |-> "Close", fin |-> TRUE, payload |-> <<>>, reason |-> code, descr |-> d]
\* A codec write, as it ended.
Written(fr, ok) == [frame |-> fr, ok |-> ok]

\* What a call returns: Ok(()), a Message, an Error {kind, cause}, or it panics.
Res(k, v) == [kind |-> k, val |-> v, cause |-> ""]
Err(k, c) == [kind |-> "Err", val |-> k, cause |-> c]
NoResult == Res("none", "")
OkUnit == Res("Ok", "")
Panic == Res("Panic", "")
ErrClosed == Err("Close", "Closed")
\* A failure of the codec's write, passed on as it is.
ErrWrite == Err("IO", "write failed")
\* close(reason: Option<String>)
Descriptions == {"", "bye"}

NoPing == [ping |-> <<>>, answered |-> FALSE]
NoCall == [name |-> "none", buf |-> <<>>, type |-> "none", size |-> 0]

VARIABLES
  closed,          \* WebSocketInner.closed
  control_buffer,  \* WebSocketInner.control_buffer
  consumed,        \* the handle was moved into close()
  pc,              \* where the call in progress is suspended; "idle" between calls
  call,            \* the call in progress, or the last one
  result,          \* what the last call returned
  cur,             \* the item read_next yielded last in this read
  pending,         \* the frame handed to the codec write being awaited
  chunks,          \* send_fragmented: the chunks not yet taken from the iterator
  frames,          \* the codec writes of this call, in order, each with its outcome
  discards,        \* Pongs this read has skipped (saturating)
  closed0,         \* closed when the call started
  buffer0,         \* control_buffer when the call started
  asked,           \* ping: <<P>> for the last write(Ping, P) let through;
                   \* answered: a read has returned Message::Pong for it
  closeSent        \* a Close frame has been transmitted on this connection

vars ==
  <<closed, control_buffer, consumed, pc, call, result, cur, pending, chunks,
    frames, discards, closed0, buffer0, asked, closeSent>>

Init ==
  /\ closed = FALSE
  /\ control_buffer = <<>>
  /\ consumed = FALSE
  /\ pc = "idle"
  /\ call = NoCall
  /\ result = NoResult
  /\ cur = NoItem
  /\ pending = NoFrame
  /\ chunks = <<>>
  /\ frames = <<>>
  /\ discards = 0
  /\ closed0 = FALSE
  /\ buffer0 = <<>>
  /\ asked = NoPing
  /\ closeSent = FALSE

\* ---------------------------------------------------------------- helpers
Min(a, b) == IF a < b THEN a ELSE b

\* The frames of this call that reached the wire.
Sent == SelectSeq(frames, LAMBDA w : w.ok)
SentFrames == [i \in 1..Len(Sent) |-> Sent[i].frame]

\* A call starts: the per-call bookkeeping is reset.
Begin(c) ==
  /\ pc = "idle"
  /\ ~consumed
  /\ call' = c
  /\ frames' = <<>>
  /\ discards' = 0
  /\ cur' = NoItem
  /\ closed0' = closed
  /\ buffer0' = control_buffer

\* The call returns r.
Return(r) ==
  /\ pc' = "idle"
  /\ result' = r
  /\ pending' = NoFrame

\* The call suspends at an await: on read_next, or on the codec write of fr.
Suspend(at, fr) ==
  /\ pc' = at
  /\ pending' = fr
  /\ result' = NoResult

\* The awaited codec write ended: it is logged with its outcome.
Complete(ok) ==
  /\ frames' = Append(frames, Written(pending, ok))
  /\ closeSent' = (closeSent \/ (ok /\ pending.op = "Close"))

\* --------------------------------------------------- WebSocketInner::read
\* read without its closed check.
ReadCall_Unchecked ==
  /\ Begin([NoCall EXCEPT !.name = "read"])
  /\ Suspend("read_next", NoFrame)
  /\ UNCHANGED <<closed, control_buffer, consumed, chunks, asked, closeSent>>

\* ws.rs 152-163: the closed check, then the loop starts at read_next.
ReadCall ==
  /\ Begin([NoCall EXCEPT !.name = "read"])
  /\ IF closed THEN Return(ErrClosed) ELSE Suspend("read_next", NoFrame)
  /\ UNCHANGED <<closed, control_buffer, consumed, chunks, asked, closeSent>>

\* The Pong echo sent without the Ping's payload.
OnPing_EmptyEcho(payload) ==
  /\ Suspend("pong_echo", Frame("Pong", TRUE, <<>>))
  /\ UNCHANGED <<closed, discards, asked>>

\* ws.rs 169-176: the Ping is echoed as a Pong before it is surfaced.
OnPing(payload) ==
  /\ Suspend("pong_echo", Frame("Pong", TRUE, payload))
  /\ UNCHANGED <<closed, discards, asked>>

\* The Pong arm without the is_empty test: every Pong is compared.
OnPong_NoEmptyCheck(payload) ==
  IF control_buffer = payload
  THEN /\ Return(Res("Pong", ""))
       /\ asked' = [asked EXCEPT !.answered = TRUE]
       /\ UNCHANGED <<closed, discards>>
  ELSE /\ closed' = TRUE
       /\ Suspend("mismatch_close", CloseFrame("Protocol", CONTROL_DATA_MISMATCH))
       /\ UNCHANGED <<discards, asked>>

\* The Pong arm surfacing a Pong nobody asked for instead of skipping it.
OnPong_Surface(payload) ==
  IF control_buffer = <<>> \/ control_buffer = payload
  THEN /\ Return(Res("Pong", ""))
       /\ asked' = [asked EXCEPT !.answered = TRUE]
       /\ UNCHANGED <<closed, discards>>
  ELSE /\ closed' = TRUE
       /\ Suspend("mismatch_close", CloseFrame("Protocol", CONTROL_DATA_MISMATCH))
       /\ UNCHANGED <<discards, asked>>

\* ws.rs 179-200: a Pong is skipped when no Ping is tracked, else compared.
OnPong(payload) ==
  IF control_buffer = <<>>
  THEN /\ pc' = "read_next"
       /\ discards' = Min(discards + 1, MaxDiscards)
       /\ UNCHANGED <<closed, result, pending, asked>>
  ELSE IF control_buffer = payload
       THEN /\ Return(Res("Pong", ""))
            /\ asked' = [asked EXCEPT !.answered = TRUE]
            /\ UNCHANGED <<closed, discards>>
       ELSE /\ closed' = TRUE
            /\ Suspend("mismatch_close", CloseFrame("Protocol", CONTROL_DATA_MISMATCH))
            /\ UNCHANGED <<discards, asked>>

\* ws.rs 201-208: the Close is echoed with the payload it came with.
OnClose(reason, payload) ==
  /\ Suspend("close_echo", Frame("Close", TRUE, payload))
  /\ UNCHANGED <<closed, discards, asked>>

\* ws.rs 165-213: read_next yielded Ok(item).
ReadNextOk(item) ==
  /\ pc = "read_next"
  /\ cur' = item
  /\ IF item.kind = "Binary" \/ item.kind = "Text"
     THEN Return(Res(item.kind, "")) /\ UNCHANGED <<closed, discards, asked>>
     ELSE IF item.kind = "Ping" THEN OnPing(item.payload)
     ELSE IF item.kind = "Pong" THEN OnPong(item.payload)
     ELSE OnClose(item.reason, item.payload)
  /\ UNCHANGED <<control_buffer, consumed, call, chunks, frames, closed0, buffer0, closeSent>>

\* The Err arm latching closed only when there is no Close to send.
ReadNextErr_LateLatch(e) ==
  /\ pc = "read_next"
  /\ cur' = Item("Err", <<>>, e.error)
  /\ closed' = (closed \/ e.close_with = "none")
  /\ IF e.close_with # "none"
     THEN Suspend("error_close", CloseFrame(e.close_with, ""))
     ELSE Return(Err("Read", e.error))
  /\ UNCHANGED <<control_buffer, consumed, call, chunks, frames, discards, closed0, buffer0, asked, closeSent>>

\* ws.rs 214-224: read_next yielded Err(ReadError {close_with, error}).
ReadNextErr(e) ==
  /\ pc = "read_next"
  /\ cur' = Item("Err", <<>>, e.error)
  /\ closed' = TRUE
  /\ IF e.close_with # "none"
     THEN Suspend("error_close", CloseFrame(e.close_with, ""))
     ELSE Return(Err("Read", e.error))
  /\ UNCHANGED <<control_buffer, consumed, call, chunks, frames, discards, closed0, buffer0, asked, closeSent>>

\* The Ping arm going round the loop again after the echo instead of returning.
AfterPongEcho_Continue(ok) ==
  /\ IF ok
     THEN pc' = "read_next" /\ result' = NoResult /\ pending' = NoFrame
     ELSE Return(ErrWrite)
  /\ UNCHANGED closed

\* ws.rs 176-177: after the Pong echo.
AfterPongEcho(ok) ==
  /\ Return(IF ok THEN Res("Ping", "") ELSE ErrWrite)
  /\ UNCHANGED closed

\* ws.rs 208-211: after the Close echo.
AfterCloseEcho(ok) ==
  IF ok
  THEN closed' = TRUE /\ Return(Res("Close", cur.reason))
  ELSE Return(ErrWrite) /\ UNCHANGED closed

\* ws.rs 192-197: after the Close sent for a Pong that did not match.
AfterMismatchClose(ok) ==
  /\ Return(IF ok THEN Err("Protocol", CONTROL_DATA_MISMATCH) ELSE ErrWrite)
  /\ UNCHANGED closed

\* closed taken from the outcome of the Close write instead of staying latched.
AfterErrorClose_Unlatch(ok) ==
  /\ Return(IF ok THEN Err("Read", cur.reason) ELSE ErrWrite)
  /\ closed' = ~ok

\* ws.rs 221-223: after the Close the codec recommended with its failure.
AfterErrorClose(ok) ==
  /\ Return(IF ok THEN Err("Read", cur.reason) ELSE ErrWrite)
  /\ UNCHANGED closed

\* The codec write a read was awaiting has ended, with Ok (ok) or Err.
ReadResume(ok) ==
  /\ pc \in {"pong_echo", "close_echo", "mismatch_close", "error_close"}
  /\ Complete(ok)
  /\ IF pc = "pong_echo" THEN AfterPongEcho(ok)
     ELSE IF pc = "close_echo" THEN AfterCloseEcho(ok)
     ELSE IF pc = "mismatch_close" THEN AfterMismatchClose(ok)
     ELSE AfterErrorClose(ok)
  /\ UNCHANGED <<control_buffer, consumed, call, cur, chunks, discards, closed0, buffer0, asked>>

\* -------------------------------------------------- WebSocketInner::write
\* An operation that can panic: either a value, or the panic.
Value(v) == [panic |-> FALSE, value |-> v]
Panicked == [panic |-> TRUE, value |-> <<>>]

\* &buf[..n]: panics when n is past the end of buf.
SliceTo(buf, n) == IF n > Len(buf) THEN Panicked ELSE Value(SubSeq(buf, 1, n))

\* dst.clone_from_slice(src): panics unless both have the same length.
CloneFromSlice(dst, src) == IF Len(dst) # Len(src) THEN Panicked ELSE Value(src)

\* ws.rs 246-248: control_buffer.clear(), then
\* control_buffer.clone_from_slice(&buf[..CONTROL_MAX_SIZE]).
StorePing(buf) ==
  LET cleared == <<>>
      src == SliceTo(buf, CONTROL_MAX_SIZE)
  IN  IF src.panic THEN [panic |-> TRUE, value |-> cleared]
      ELSE LET copied == CloneFromSlice(cleared, src.value)
           IN  IF copied.panic THEN [panic |-> TRUE, value |-> cleared] ELSE copied

\* The Ping arm without the size check.
WritePing_NoLimit(buf) ==
  /\ asked' = [ping |-> <<buf>>, answered |-> FALSE]
  /\ control_buffer' = StorePing(buf).value
  /\ IF StorePing(buf).panic
     THEN Return(Panic)
     ELSE Suspend("write_frame", Frame("Ping", TRUE, buf))

\* ws.rs 242-251: the Ping arm of the op_code match.
WritePing(buf) ==
  IF Len(buf) > CONTROL_MAX_SIZE
  THEN /\ Return(Err("Protocol", CONTROL_FRAME_LEN))
       /\ UNCHANGED <<control_buffer, asked>>
  ELSE /\ asked' = [ping |-> <<buf>>, answered |-> FALSE]
       /\ control_buffer' = StorePing(buf).value
       /\ IF StorePing(buf).panic
          THEN Return(Panic)
          ELSE Suspend("write_frame", Frame("Ping", TRUE, buf))

\* ws.rs 229-254: the closed check, the op code, then the one codec write.
\* A panic unwinds out of the call; the engine stays as the panic left it
\* and the handle can be used again by a caller that caught the unwind.
WriteCall(buf, type) ==
  /\ Begin([NoCall EXCEPT !.name = "write", !.buf = buf, !.type = type])
  /\ IF closed
     THEN Return(ErrClosed) /\ UNCHANGED <<control_buffer, asked>>
     ELSE IF type = "Ping"
          THEN WritePing(buf)
          ELSE /\ Suspend("write_frame", Frame(type, TRUE, buf))
               /\ UNCHANGED <<control_buffer, asked>>
  /\ UNCHANGED <<closed, consumed, chunks, closeSent>>

\* ws.rs 254-260: the codec write ended; a failure latches closed.
WriteResume(ok) ==
  /\ pc = "write_frame"
  /\ Complete(ok)
  /\ IF ok
     THEN Return(OkUnit) /\ UNCHANGED closed
     ELSE closed' = TRUE /\ Return(ErrWrite)
  /\ UNCHANGED <<control_buffer, consumed, call, cur, chunks, discards, closed0, buffer0, asked>>

\* ---------------------------------------- WebSocketInner::send_fragmented
\* Chunking that drops a last chunk shorter than n (chunks_exact_mut).
Chunks_Exact(buf, n) ==
  [i \in 1..(Len(buf) \div n) |-> SubSeq(buf, (i - 1) * n + 1, i * n)]

\* buf.chunks_mut(n): consecutive slices of n bytes, the last one shorter.
RECURSIVE Chunks(_, _)
Chunks(buf, n) ==
  IF buf = <<>> THEN <<>>
  ELSE IF Len(buf) <= n THEN <<buf>>
  ELSE <<SubSeq(buf, 1, n)>> \o Chunks(SubSeq(buf, n + 1, Len(buf)), n)

\* FIN on every chunk, whatever peek() finds.
Flags_AlwaysFin(rest) == TRUE

\* ws.rs 124-128, 138-142: FIN when peek() finds no further chunk.
Flags(rest) == (rest = <<>>)

\* ws.rs 106-135: the closed check, the chunking, the first chunk.
\* chunks_mut panics when the chunk size is 0.
SendFragmentedCall(buf, type, size) ==
  /\ Begin([NoCall EXCEPT !.name = "send_fragmented", !.buf = buf, !.type = type, !.size = size])
  /\ IF closed THEN Return(ErrClosed) /\ UNCHANGED chunks
     ELSE IF size = 0 THEN Return(Panic) /\ UNCHANGED chunks
     ELSE LET cs == Chunks(buf, size)
          IN  IF cs = <<>>
              THEN Return(OkUnit) /\ UNCHANGED chunks
              ELSE /\ chunks' = Tail(cs)
                   /\ Suspend("frag_first", Frame(type, Flags(Tail(cs)), Head(cs)))
  /\ UNCHANGED <<closed, control_buffer, consumed, asked, closeSent>>

\* ws.rs 130-147: a chunk's write ended; `?` returns its failure, else the
\* next chunk goes out as a Continuation.
SendFragmentedResume(ok) ==
  /\ pc \in {"frag_first", "frag_rest"}
  /\ Complete(ok)
  /\ IF ~ok THEN Return(ErrWrite) /\ UNCHANGED chunks
     ELSE IF chunks = <<>> THEN Return(OkUnit) /\ UNCHANGED chunks
     ELSE /\ chunks' = Tail(chunks)
          /\ Suspend("frag_rest", Frame("Continuation", Flags(Tail(chunks)), Head(chunks)))
  /\ UNCHANGED <<closed, control_buffer, consumed, call, cur, discards, closed0, buffer0, asked>>

\* ------------------------------------------------------- WebSocket::close
\* close borrowing the handle (&mut self) instead of taking it.
CloseCall_Borrowed(descr) ==
  /\ Begin([NoCall EXCEPT !.name = "close", !.type = descr])
  /\ Suspend("close_write", CloseFrame("Normal", descr))
  /\ UNCHANGED <<closed, control_buffer, consumed, chunks, asked, closeSent>>

\* ws.rs 35-39: close takes the handle by value and writes one Close frame.
CloseCall(descr) ==
  /\ Begin([NoCall EXCEPT !.name = "close", !.type = descr])
  /\ consumed' = TRUE
  /\ Suspend("close_write", CloseFrame("Normal", descr))
  /\ UNCHANGED <<closed, control_buffer, chunks, asked, closeSent>>

\* ws.rs 39: the result of write_close is the result of close.
CloseResume(ok) ==
  /\ pc = "close_write"
  /\ Complete(ok)
  /\ Return(IF ok THEN OkUnit ELSE ErrWrite)
  /\ UNCHANGED <<closed, control_buffer, consumed, call, cur, chunks, discards, closed0, buffer0, asked>>

\* ------------------------------------------------------------ the system
Next ==
  \/ ReadCall
  \/ \E item \in Items : ReadNextOk(item)
  \/ \E e \in ReadErrors : ReadNextErr(e)
  \/ \E ok \in BOOLEAN : ReadResume(ok)
  \/ \E buf \in WriteBufs, type \in PayloadTypes : WriteCall(buf, type)
  \/ \E ok \in BOOLEAN : WriteResume(ok)
  \/ \E buf \in FragBufs, type \in MessageTypes, size \in FragSizes : SendFragmentedCall(buf, type, size)
  \/ \E ok \in BOOLEAN : SendFragmentedResume(ok)
  \/ \E descr \in Descriptions : CloseCall(descr)
  \/ \E ok \in BOOLEAN : CloseResume(ok)

Spec == Init /\ [][Next]_vars

\* The codec does not withhold forever an item that ends the read loop (one
\* that is not a skipped Pong, or a failure), and a codec write a read
\* awaits ends, with Ok or Err.
ReadProgress ==
  \/ \E item \in Items : ReadNextOk(item) /\ pc' # "read_next"
  \/ \E e \in ReadErrors : ReadNextErr(e)

FairSpec ==
  /\ Init /\ [][Next]_vars
  /\ WF_vars(ReadProgress)
  /\ WF_vars(\E ok \in BOOLEAN : ReadResume(ok))

\* ================================================================ claims
IsEngineCall == call.name \in {"read", "write", "send_fragmented"}
Returned == pc = "idle" /\ result # NoResult
AllOk == \A i \in 1..Len(frames) : frames[i].ok

\* C1: a read, write or send_fragmented call that starts when closed is true
\* returns the Closed error at once: it never suspends, reads no item from
\* the codec, hands no frame to the codec, and closed stays true.
C1_ClosedFailsFast ==
  (IsEngineCall /\ closed0) =>
    /\ pc = "idle"
    /\ result = ErrClosed
    /\ cur = NoItem
    /\ discards = 0
    /\ frames = <<>>
    /\ closed

C1_Witness ==
  /\ call.name = "send_fragmented" /\ call.buf # <<>> /\ call.size > 0
  /\ closed0
  /\ result = ErrClosed

\* C2: whenever read, write or send_fragmented returns an error, closed is
\* true when the call returns.
C2_ErrorLatchesClosed ==
  (IsEngineCall /\ Returned /\ result.kind = "Err") => closed

\* C3: a read returns Message::Pong only for a Pong item whose payload equals
\* the payload of the last Ping handed to write; a Pong with any other
\* payload never completes a read as Message::Pong.
C3_PongOnlyForLastPing ==
  /\ (call.name = "read" /\ Returned /\ result.kind = "Pong") =>
       (cur.kind = "Pong" /\ asked.ping = <<cur.payload>>)
  /\ (call.name = "read" /\ cur.kind = "Pong" /\ asked.ping # <<cur.payload>>) =>
       result.kind # "Pong"

\* A Pong whose payload differs from the last Ping's was taken from the codec.
C3_Witness ==
  /\ call.name = "read"
  /\ cur.kind = "Pong"
  /\ asked.ping # <<>> /\ asked.ping # <<cur.payload>>
  /\ result.kind # "Pong"

\* C4: for every P of 0 to 125 bytes, write(Ping, P) on an open session whose
\* codec writes succeed returns Ok, and a read that then takes Pong(P) from
\* the codec returns Message::Pong for it (the Ping is answered by that step),
\* having sent no frame and leaving the session open.
C4_PingThenPong ==
  /\ (/\ call.name = "write" /\ call.type = "Ping" /\ ~closed0
      /\ Len(call.buf) <= CONTROL_MAX_SIZE
      /\ pc = "idle" /\ AllOk) => result = OkUnit
  /\ (/\ call.name = "read" /\ ~closed0
      /\ cur.kind = "Pong" /\ asked.ping = <<cur.payload>>) =>
       /\ asked.answered
       /\ (pc = "idle" /\ result = Res("Pong", "")) => (frames = <<>> /\ ~closed)

\* C5: when Ping P is outstanding and a read takes Pong(Q), Q # P, from the
\* codec, the read fails with the Protocol error, the one frame transmitted
\* in the call is a Close with code Protocol, and closed is true on return.
C5_MismatchClosesWithProtocol ==
  (/\ call.name = "read" /\ ~closed0
   /\ cur.kind = "Pong" /\ ~asked.answered
   /\ asked.ping # <<>> /\ asked.ping # <<cur.payload>>) =>
    /\ pc # "read_next"
    /\ pc = "idle" =>
         /\ result = Err("Protocol", CONTROL_DATA_MISMATCH)
         /\ SentFrames = <<CloseFrame("Protocol", CONTROL_DATA_MISMATCH)>>
         /\ Len(frames) = 1
         /\ closed

\* C6: a Pong taken from the codec while control_buffer is empty is skipped:
\* the step returns nothing, hands no frame to the codec, leaves closed and
\* control_buffer as they were, and the read waits for the next item; a read
\* on an open session with an empty control_buffer never returns on a Pong.
C6_SkipStep ==
  (pc = "read_next" /\ control_buffer = <<>> /\ cur'.kind = "Pong") =>
    /\ pc' = "read_next"
    /\ result' = NoResult
    /\ pending' = NoFrame
    /\ frames' = frames
    /\ closed' = closed
    /\ control_buffer' = control_buffer
    /\ closeSent' = closeSent

C6_NoReturnOnPong ==
  (call.name = "read" /\ Returned /\ ~closed0 /\ buffer0 = <<>>) =>
    (cur.kind # "Pong" /\ result.kind # "Pong")

C6_UnsolicitedPongSkipped == [][C6_SkipStep]_vars /\ []C6_NoReturnOnPong

\* A read skipped a Pong and returned what the next item gave.
C6_Witness ==
  /\ call.name = "read" /\ Returned
  /\ discards > 0
  /\ buffer0 = <<>>
  /\ result = Res("Text", "")

\* C7: between operations control_buffer holds exactly the payload of the
\* last Ping handed to write that no read has answered yet, and nothing once
\* a read has returned Message::Pong for it (a further Pong is unsolicited).
Outstanding == asked.ping # <<>> /\ ~asked.answered

C7_TracksOutstandingPing ==
  pc = "idle" =>
    control_buffer = (IF Outstanding THEN asked.ping[1] ELSE <<>>)

\* C8: a read on an open session that takes Close(reason, payload) from the
\* codec writes exactly one frame, a Close with FIN and that payload, returns
\* Message::Close(reason), and closed is true when it returns.
C8_CloseEchoed ==
  (call.name = "read" /\ ~closed0 /\ cur.kind = "Close" /\ pc = "idle") =>
    /\ Len(frames) = 1
    /\ frames[1].frame = Frame("Close", TRUE, cur.payload)
    /\ result = Res("Close", cur.reason)
    /\ closed

\* C9: a read that took a Ping from the codec has handed the codec exactly
\* one frame when it returns, a Pong with FIN and the Ping's payload; it
\* returns Message::Ping exactly when that write succeeded, and then closed
\* and control_buffer are what they were when the read started.
C9_PingEchoedBeforeSurfaced ==
  /\ (call.name = "read" /\ Returned /\ result.kind = "Ping") => cur.kind = "Ping"
  /\ (call.name = "read" /\ pc = "idle" /\ cur.kind = "Ping") =>
       /\ Len(frames) = 1
       /\ frames[1].frame = Frame("Pong", TRUE, cur.payload)
       /\ (result.kind = "Ping") = frames[1].ok
       /\ result.kind = "Ping" =>
            (closed = closed0 /\ ~closed /\ control_buffer = buffer0)

C9_Witness ==
  /\ call.name = "read" /\ Returned
  /\ result = Res("Ping", "")
  /\ cur = Item("Ping", <<2>>, "none")
  /\ SentFrames = <<Frame("Pong", TRUE, <<2>>)>>

\* C10: a send_fragmented call on an open session with fragment_size F > 0
\* whose codec writes all succeed returns Ok having written ceil(N/F) frames,
\* each with 1 to F bytes, whose payloads in order concatenate to the buffer.
CeilDiv(n, f) == (n + f - 1) \div f

RECURSIVE Concat(_)
Concat(ss) == IF ss = <<>> THEN <<>> ELSE Head(ss) \o Concat(Tail(ss))

Payloads == [i \in 1..Len(frames) |-> frames[i].frame.payload]

C10_FragmentsCoverBuffer ==
  (/\ call.name = "send_fragmented" /\ ~closed0 /\ call.size > 0
   /\ pc = "idle" /\ AllOk) =>
    /\ result = OkUnit
    /\ Len(frames) = CeilDiv(Len(call.buf), call.size)
    /\ \A i \in 1..Len(frames) :
         Len(Payloads[i]) >= 1 /\ Len(Payloads[i]) <= call.size
    /\ Concat(Payloads) = call.buf

\* Three bytes in fragments of two: a full chunk and a shorter last one.
C10_Witness ==
  /\ call.name = "send_fragmented" /\ ~closed0
  /\ Len(call.buf) = 3 /\ call.size = 2
  /\ pc = "idle" /\ result = OkUnit
  /\ Len(frames) = 2 /\ AllOk

\* C11: in the frames of a send_fragmented call that returned Ok for a
\* non-empty buffer, the last frame and no other carries FIN, the first
\* frame's opcode is the requested Text or Binary and every later frame's
\* opcode is Continuation; a message of one frame has the data opcode and FIN.
C11_FinLastAndOpcodes ==
  (/\ call.name = "send_fragmented" /\ ~closed0 /\ call.buf # <<>>
   /\ pc = "idle" /\ result = OkUnit) =>
    /\ Len(frames) >= 1
    /\ \A i \in 1..Len(frames) :
         /\ frames[i].ok
         /\ frames[i].frame.fin = (i = Len(frames))
         /\ frames[i].frame.op = (IF i = 1 THEN call.type ELSE "Continuation")

\* Three frames: Binary, Continuation, Continuation, FIN on the third only.
C11_Witness ==
  /\ call.name = "send_fragmented" /\ call.type = "Binary"
  /\ pc = "idle" /\ result = OkUnit
  /\ Len(frames) = 3
  /\ ~frames[1].frame.fin /\ ~frames[2].frame.fin /\ frames[3].frame.fin

\* C12: write(Ping, buf) on an open session with more than 125 bytes returns
\* the Protocol error at once, hands no frame to the codec, and leaves
\* control_buffer as it was when the call started.
C12_OversizePingRejected ==
  (/\ call.name = "write" /\ call.type = "Ping" /\ ~closed0
   /\ Len(call.buf) > CONTROL_MAX_SIZE) =>
    /\ pc = "idle"
    /\ result = Err("Protocol", CONTROL_FRAME_LEN)
    /\ frames = <<>>
    /\ control_buffer = buffer0

C12_Witness ==
  /\ call.name = "write" /\ call.type = "Ping" /\ ~closed0
  /\ Len(call.buf) = CONTROL_MAX_SIZE + 1
  /\ result.kind = "Err" /\ result.val = "Protocol"

\* C13: a write on an open session that passes the Ping size check hands the
\* codec exactly one frame, with FIN, the caller's payload and the opcode of
\* the requested type; if that write fails closed is true and the failure is
\* returned, and if it succeeds Ok is returned and closed is false.
C13_WriteOneFrame ==
  (/\ call.name = "write" /\ ~closed0 /\ pc = "idle"
   /\ (call.type = "Ping" => Len(call.buf) <= CONTROL_MAX_SIZE)) =>
    /\ Len(frames) = 1
    /\ frames[1].frame = Frame(call.type, TRUE, call.buf)
    /\ IF frames[1].ok
       THEN result = OkUnit /\ ~closed
       ELSE result = ErrWrite /\ closed

\* C14: closed is false at construction and no step of any operation or of
\* the codec takes it from true back to false.
C14_ClosedMonotonic == ~closed /\ [][closed => closed']_vars

\* A closed engine that went through a further call.
C14_Witness ==
  /\ closed /\ closed0
  /\ call.name = "write"
  /\ pc = "idle"

\* C15: once read_next has failed in a read, closed is true; a failure with a
\* recommended CloseReason makes exactly one codec write, the Close with that
\* reason, and the read returns that write's failure if it fails and the
\* original failure if it succeeds; a failure without a reason makes no codec
\* write and the read returns the original failure.
CloseWith(error) == (CHOOSE e \in ReadErrors : e.error = error).close_with

C15_ReadFailureCloses ==
  (call.name = "read" /\ cur.kind = "Err") =>
    /\ closed
    /\ pc \in {"error_close", "idle"}
    /\ pc = "error_close" =>
         /\ CloseWith(cur.reason) # "none"
         /\ frames = <<>>
         /\ pending = CloseFrame(CloseWith(cur.reason), "")
    /\ pc = "idle" =>
         IF CloseWith(cur.reason) = "none"
         THEN frames = <<>> /\ result = Err("Read", cur.reason)
         ELSE /\ Len(frames) = 1
              /\ frames[1].frame = CloseFrame(CloseWith(cur.reason), "")
              /\ result = (IF frames[1].ok THEN Err("Read", cur.reason) ELSE ErrWrite)

\* The recommended Close could not be sent: its failure is what read returns.
C15_Witness ==
  /\ call.name = "read" /\ cur.kind = "Err" /\ pc = "idle"
  /\ Len(frames) = 1 /\ ~frames[1].ok
  /\ result = ErrWrite
  /\ closed

\* C16: a send_fragmented call in which a chunk's write failed returns that
\* failure with closed true, and its codec writes are the chunks of the
\* buffer in order up to and including the one that failed, none after it.
C16_FragmentFailureCloses ==
  (call.name = "send_fragmented" /\ ~closed0 /\ pc = "idle" /\ ~AllOk) =>
    /\ result = ErrWrite
    /\ closed
    /\ Len(frames) <= Len(Chunks(call.buf, call.size))
    /\ \A i \in 1..Len(frames) :
         /\ frames[i].frame.payload = Chunks(call.buf, call.size)[i]
         /\ frames[i].ok = (i < Len(frames))

\* C18: close(reason) takes the handle: from the call on the handle is gone,
\* the call makes exactly one codec write, the Close with code Normal and the
\* given description, and returns that write's outcome; the only step that
\* follows a close call is the end of that write, whether Ok or Err: no
\* read, write, send_fragmented or second close starts.
C18_CloseState ==
  call.name = "close" =>
    /\ consumed
    /\ pc \in {"close_write", "idle"}
    /\ pc = "close_write" =>
         (frames = <<>> /\ pending = CloseFrame("Normal", call.type))
    /\ pc = "idle" =>
         /\ Len(frames) = 1
         /\ frames[1].frame = CloseFrame("Normal", call.type)
         /\ result = (IF frames[1].ok THEN OkUnit ELSE ErrWrite)

C18_CloseStep ==
  consumed => (pc = "close_write" /\ pc' = "idle" /\ call' = call /\ consumed')

C18_CloseConsumesHandle == []C18_CloseState /\ [][C18_CloseStep]_vars

\* close("bye") whose Close write failed: the handle is gone all the same.
C18_Witness ==
  /\ call.name = "close" /\ call.type = "bye"
  /\ consumed /\ pc = "idle"
  /\ result = ErrWrite

\* C19: once a Close frame has been transmitted on the connection, no further
\* frame of any kind is transmitted (so at most one Close frame is ever sent).
C19_NothingAfterClose ==
  [][closeSent =>
       ~(Len(frames') = Len(frames) + 1 /\ frames'[Len(frames')].ok)]_vars

\* C20: a read leaves the read_next loop with the first item that is not a
\* skipped Pong, or with a failure, and returns after at most one codec write;
\* a step that stays in the loop is a Pong skipped with control_buffer empty,
\* which writes nothing and changes neither closed nor control_buffer. Under
\* FairSpec every read in progress eventually returns.
C20_LoopStep ==
  /\ (pc = "read_next" /\ pc' = "read_next") =>
       /\ cur'.kind = "Pong" /\ control_buffer = <<>>
       /\ frames' = frames
       /\ result' = result
       /\ closed' = closed
       /\ control_buffer' = control_buffer
  /\ (pc \in {"pong_echo", "close_echo", "mismatch_close", "error_close"}) =>
       pc' = "idle"

C20_ReadReturns ==
  /\ (call.name = "read" /\ pc # "idle") ~> (pc = "idle")
  /\ [][C20_LoopStep]_vars

\* A read that skipped Pongs up to the bound and then returned on a Binary.
C20_Witness ==
  /\ call.name = "read" /\ Returned
  /\ discards = MaxDiscards
  /\ result = Res("Binary", "")

====
